---- MODULE Spec2Model ----
(***************************************************************************)
(* Ingest-store-serve pipeline of nano_inference_server:                   *)
(*   storage/result_storage.py      ResultStorage                          *)
(*   monitoring/directory_monitor.py DirectoryMonitor                      *)
(*   api/server.py                  APIServer                              *)
(* and the camera unit pi_bird_cam:                                        *)
(*   storage/photo_storage.py       PhotoStorage                           *)
(*   sensors/pir_sensor.py          PIRSensor                              *)
(* Each component has its own specification over the shared variables:     *)
(*   Spec       non-overlapping save_result calls on one store             *)
(*   SpecConc   save_result calls overlapping on two threads               *)
(*   SpecPipe   detect, annotate and save, from the watcher and the upload *)
(*   SpecWatch  the directory monitor: observer, initial walk, worker      *)
(*   SpecWatchFair  the same, the event thread and stop() running on       *)
(*   SpecRate   the rate limiter on concurrent request threads             *)
(*   SpecAuth   the route table and the access key check                   *)
(*   SpecServe  the image-serving route and its path sanitizer             *)
(*   SpecFeed   the directory monitor with process_image as its callback   *)
(*   SpecApi    save_result calls and the routes that read the store       *)
(*   SpecPhoto  the camera unit's main loop and save_photo                 *)
(*   SpecPir    detect_motion and the wall clock                           *)
(***************************************************************************)
EXTENDS Integers, Sequences, FiniteSets, TLC

(***************************************************************************)
(* Bounds of the model.                                                    *)
(***************************************************************************)
\* configured max_results of the store (default 1000), kept small
MaxResults == 1
\* largest value of the wall clock
MaxClock == 1
\* configured rate_limit of the gateway (default 100), kept small
RateLimit == 1
\* requests explored per client address
MaxRequests == 2
\* number of stop() calls explored
MaxStops == 2
\* the bound a bounded work queue would be given
QueueBound == 1
\* largest value of time.time() and the step by which it advances
MaxTime == 60
TimeStep == 30

\* longest requested path, in characters
MaxLen == 5

\* the rate limiter's window, in seconds
Window == 60

\* configured max_photos of the photo storage (default 1000), kept small
MaxPhotos == 1
\* number of save_photo calls explored
MaxPhotoSaves == 3
\* number of photo files written in all
MaxWrites == 3
\* configured cooldown_time of the motion sensor (default 1.0), in ticks
CooldownTime == 2
\* largest value of time.time() at the sensor
MaxPirTime == 6
\* number of save_result calls explored: enough to overflow the store
MaxSaves == MaxResults + 1

Names == {"a.jpg", "b.jpg"}

(***************************************************************************)
(* Paths.  A path is a record [root, name, rid]: the directory it lies     *)
(* in, the base name of the source image and the result id spliced into    *)
(* the file name (-1 for a path that carries no result id).                *)
(***************************************************************************)
Path(root, name, rid) == [root |-> root, name |-> name, rid |-> rid]

\* Python's None where a path is expected
None == Path("None", "None", -1)

\* the image_path argument of save_result: a file outside the store
SrcPath(n) == Path("src", n, -1)

\* ModelHandler.annotate_image: <dir of image>/annotated/ann_<name>
AnnPath(n) == Path("src/annotated", n, -1)

\* ResultStorage._get_paths
GetPaths(n, rid) ==
    [stored_image_path |-> Path("images", n, rid),
     annotated_path    |-> Path("annotated", n, rid),
     result_path       |-> Path("results", n, rid)]

(***************************************************************************)
(* Detections.  confidence is in tenths.                                   *)
(***************************************************************************)
Det(c, conf) == [class_name |-> c, confidence |-> conf]

\* the detection lists handed to save_result
DetLists == {<<>>, <<Det("robin", 9), Det("bird", 5)>>}

RECURSIVE MaxConfFrom(_, _, _)
MaxConfFrom(dets, i, acc) ==
    IF i > Len(dets) THEN acc
    ELSE MaxConfFrom(dets, i + 1,
                     IF dets[i].confidence > acc THEN dets[i].confidence ELSE acc)

\* save_result: max_confidence loop
MaxConfidence(dets) == MaxConfFrom(dets, 1, 0)

\* save_result: species_list non-empty
HasSpecies(dets) == \E i \in 1..Len(dets) : dets[i].class_name # "bird"

\* sqlite stores a Python bool in a BOOLEAN column as 0/1
SqlBool(b) == IF b THEN 1 ELSE 0

VARIABLES
    clock,      \* datetime.now(), in ticks
    index,      \* rows of table detections
    nextId,     \* AUTOINCREMENT sequence: the id the next INSERT gets
    docs,       \* result documents on disk: result_path -> document
    files,      \* image files on disk (source, stored, annotated)
    ret,        \* value returned by the last save_result
    call,       \* the last save_result call: its arguments and what it did
    inserted,   \* every row ever inserted (history)
    calls,      \* number of save_result calls made
    pc,         \* overlapping calls: where each thread is inside save_result
    loc,        \* overlapping calls: each thread's local variables
    overlap,    \* some save_result call began while another was running (history)
    job,        \* the last image taken through detect, annotate_image and save_result
    \* DirectoryMonitor
    process_existing,   \* constructor argument
    present,    \* files under the watched root
    observing,  \* the observer thread is running
    events,     \* file-created events the observer has not dispatched yet
    mstate,     \* where the monitor is: created, walking, running, stopped
    walk,       \* files os.walk has listed and start() has not enqueued yet
    queue,      \* the work queue
    wpc,        \* where the worker thread is in _worker_loop
    cur,        \* the path the worker took from the queue
    stop_event, \* threading.Event
    processed,  \* number of callback invocations per path (history)
    hpath,      \* the path the event thread is handling inside on_created
    spc,        \* where the caller of stop() is
    stops,      \* number of stop() calls that have returned (history)
    log,        \* the callback invocations in order, with their outcome (history)
    \* APIServer
    now,            \* time.time(), in seconds
    request_counts, \* self.request_counts: client address -> accepted request times
    rpc,            \* where each request thread is in _rate_limit_check
    rloc,           \* each request thread's local variables
    accepted,       \* per client address, the times of the requests accepted (history)
    rejected,       \* per client address, the number of requests answered 429 (history)
    denied,         \* the last request answered 429: its client and current_time (history)
    filename,       \* the path of the last /images/<path:filename> request
    served,         \* the file _serve_image opened for it, as resolved by the OS
    status,         \* the status of the response
    access_key,     \* config["access_key"], "none" for None
    areq,           \* the last request that went through the route table, and its answer
    resp,           \* the last answer of a route that reads the store
    \* the camera unit: PhotoStorage and PIRSensor
    fstime,         \* the file system's clock, which stamps os.path.getctime
    photos,         \* the photo files under base_dir: name -> creation time
    metadata,       \* self.metadata: the file names it has an entry for
    psave,          \* the last save_photo call and how it ended
    ptime,          \* time.time() as detect_motion reads it
    last_detection_time,    \* self.last_detection_time
    motion,         \* the last detect_motion call and what it did
    positives       \* the times at which detect_motion returned True (history)

storeVars == <<clock, index, nextId, docs, files, ret, call, inserted, calls>>
concVars == <<pc, loc, overlap>>
pipeVars == <<job>>
watchVars == <<process_existing, present, observing, events, mstate, walk, queue,
               wpc, cur, stop_event, processed, hpath, spc, stops, log>>
rateVars == <<now, request_counts, rpc, rloc, accepted, rejected, denied>>
serveVars == <<filename, served, status>>
authVars == <<access_key, areq>>
apiVars == <<resp>>
photoVars == <<fstime, photos, metadata, psave>>
pirVars == <<ptime, last_detection_time, motion, positives>>
restVars == <<apiVars, photoVars, pirVars>>
extVars == <<watchVars, rateVars, serveVars, authVars, restVars>>

vars == <<storeVars, concVars, pipeVars, extVars>>

NoCall == [image_path |-> None, detections |-> <<>>, fault |-> "none", rowid |-> 0,
           delFail |-> {}, old |-> {}]

\* the threads that call save_result: the watcher's worker and a request thread
Threads == {"worker", "request"}

NoLocals == [rd |-> NoCall, to_delete |-> 0, old_results |-> {}]

(***************************************************************************)
(* save_result, step by step.                                              *)
(***************************************************************************)
\* save_result: result_data
ResultData(n, dets, annIn, ts, rid) ==
    LET p == GetPaths(n, rid) IN
    [timestamp      |-> ts,
     image_path     |-> p.stored_image_path,
     annotated_path |-> IF annIn = None THEN p.annotated_path ELSE annIn,
     result_path    |-> p.result_path,
     bird_detected  |-> Len(dets) > 0,
     bird_count     |-> Len(dets),
     has_species    |-> HasSpecies(dets),
     confidence     |-> MaxConfidence(dets),
     detections     |-> dets]

\* save_result: the except branch's return value
ErrorResult(image_path, at) ==
    [timestamp |-> at, error |-> "error", image_path |-> image_path]

\* _save_to_database: the row INSERTed for result_data, with the id sqlite assigns
Row(rd, id) ==
    [id             |-> id,
     timestamp      |-> rd.timestamp,
     image_path     |-> rd.image_path,
     annotated_path |-> rd.annotated_path,
     result_path    |-> rd.result_path,
     bird_detected  |-> SqlBool(rd.bird_detected),
     bird_count     |-> rd.bird_count,
     has_species    |-> SqlBool(rd.has_species),
     confidence     |-> rd.confidence]

\* mutant of ToDelete: the threshold test off by one
ToDeleteLax(count) == IF count > MaxResults + 1 THEN count - MaxResults ELSE 0

\* _cleanup_old_results: to_delete, 0 when count <= max_results
ToDelete(count) == IF count > MaxResults THEN count - MaxResults ELSE 0

\* mutant of OldestSets: ORDER BY timestamp DESC
NewestSets(idx, n) ==
    {S \in SUBSET idx :
        /\ Cardinality(S) = IF n < Cardinality(idx) THEN n ELSE Cardinality(idx)
        /\ \A s \in S, r \in idx \ S : s.timestamp >= r.timestamp}

\* _cleanup_old_results: the possible answers of
\* SELECT ... ORDER BY timestamp ASC LIMIT n (rows of equal timestamp come in any order)
OldestSets(idx, n) ==
    {S \in SUBSET idx :
        /\ Cardinality(S) = IF n < Cardinality(idx) THEN n ELSE Cardinality(idx)
        /\ \A s \in S, r \in idx \ S : s.timestamp <= r.timestamp}

\* mutant of RemovedPaths: a failing os.remove ends the deletion of files
RemovedUntilFailure(old, delFail) ==
    IF delFail = {} THEN UNION {{r[k] : k \in {"image_path", "annotated_path", "result_path"}} : r \in old}
    ELSE {}

\* _cleanup_old_results: the paths os.remove is called on for the rows old,
\* those of the kinds in delFail failing to be removed
RemovedPaths(old, delFail) ==
    UNION {{r[k] : k \in {"image_path", "annotated_path", "result_path"} \ delFail}
           : r \in old}

\* mutant of DeleteRows: the rows stay in the index
KeepRows(idx, old) == idx

\* _cleanup_old_results: DELETE FROM detections WHERE id = ?, for each row of old
DeleteRows(idx, old) == {r \in idx : \A o \in old : o.id # r.id}

Restrict(f, S) == [x \in S |-> f[x]]

\* dict.get("id") on a returned result: the set holding the id, empty for None
ResultId(r) == IF "id" \in DOMAIN r THEN {r.id} ELSE {}

\* get_result_by_id: full_result.update(result), the row's fields win
Merge(doc, row) ==
    [k \in DOMAIN doc \cup DOMAIN row |-> IF k \in DOMAIN row THEN row[k] ELSE doc[k]]

\* get_result_by_id, for result_id a set of at most one id (empty: None);
\* the result is the set holding the dictionary returned, empty for None
GetResultById(result_id) ==
    {IF row.result_path \in DOMAIN docs THEN Merge(docs[row.result_path], row) ELSE row
        : row \in {r \in index : r.id \in result_id}}

PathKinds == {"image_path", "annotated_path", "result_path"}

\* what can go wrong in one save_result call: nothing, shutil.copy2 raises,
\* writing the result document raises, the INSERT raises
Faults == {"none", "copy", "doc", "insert"}

\* save_result(image_path, detections, annotated_path, copy_original), whole,
\* called with the files of disk present: the two datetime.now() of lines
\* 156-157 read the clock, which has moved on when the call returns
SaveResultOn(disk, image_path, dets, annIn, copy, fault, delFail) ==
    LET ts == clock
        rid == clock
        rd == ResultData(image_path.name, dets, annIn, ts, rid)
        doCopy == copy /\ image_path \in disk
        files1 == IF doCopy /\ fault # "copy"
                  THEN disk \cup {rd.image_path} ELSE disk
        info == [image_path |-> image_path, detections |-> dets,
                 fault |-> fault, rowid |-> 0, delFail |-> {}, old |-> {}]
    IN
    /\ calls < MaxSaves
    /\ fault = "copy" => doCopy
    /\ calls' = calls + 1
    /\ clock' = clock + 1
    /\ UNCHANGED <<concVars, extVars>>
    /\ IF (doCopy /\ fault = "copy") \/ fault = "doc"
       THEN \* shutil.copy2 or open()/json.dump raised: the except branch
            /\ ret' = ErrorResult(image_path, clock)
            /\ files' = files1
            /\ call' = info
            /\ UNCHANGED <<index, nextId, docs, inserted>>
       ELSE LET docs1 == [q \in DOMAIN docs \cup {rd.result_path} |->
                             IF q = rd.result_path THEN rd ELSE docs[q]]
                row == Row(rd, nextId)
                ins == fault # "insert"
                idx1 == IF ins THEN index \cup {row} ELSE index
            IN
            \E old \in OldestSets(idx1, ToDelete(Cardinality(idx1))) :
               LET gone == RemovedPaths(old, delFail) IN
               /\ index' = DeleteRows(idx1, old)
               /\ nextId' = IF ins THEN nextId + 1 ELSE nextId
               /\ inserted' = IF ins THEN inserted \cup {[id |-> row.id, timestamp |-> row.timestamp]}
                                   ELSE inserted
               /\ docs' = Restrict(docs1, DOMAIN docs1 \ gone)
               /\ files' = files1 \ gone
               /\ ret' = rd
               /\ call' = [info EXCEPT !.rowid = IF ins THEN nextId ELSE 0,
                                        !.delFail = IF old = {} THEN {} ELSE delFail,
                                        !.old = old]

\* save_result for a source image named n
SaveResult(n, dets, annIn, copy, fault, delFail) ==
    SaveResultOn(files, SrcPath(n), dets, annIn, copy, fault, delFail)

Save ==
    \E n \in Names, dets \in DetLists, copy \in BOOLEAN, fault \in Faults,
       delFail \in {{}} \cup {{k} : k \in PathKinds} :
      \E annIn \in {None, AnnPath(n)} :
        /\ SaveResult(n, dets, annIn, copy, fault, delFail)
        /\ UNCHANGED pipeVars

\* the clock advances between calls
Tick ==
    /\ clock < MaxClock
    /\ clock' = clock + 1
    /\ UNCHANGED <<index, nextId, docs, files, ret, call, inserted, calls, concVars,
                   pipeVars, extVars>>

\* the client addresses (request.remote_addr)
Clients == {"10.0.0.1", "10.0.0.2"}

\* the threads the server handles requests on
Handlers == {"h1", "h2"}

NoRequest == [client_ip |-> "", current_time |-> 0, kept |-> <<>>]

\* the files that can appear under the watched root
WFiles == {"bird.jpg", "B2.PNG", "notes.txt"}

NoFile == "no file"

\* annotate_image: <dir of image>/annotated/ann_<name>, for the images
\* dropped under the watched root
AnnOf(f) == CASE f = "bird.jpg" -> "annotated/ann_bird.jpg"
              [] f = "B2.PNG" -> "annotated/ann_B2.PNG"
              [] OTHER -> NoFile

\* the annotated images that can appear under the watched root
AnnFiles == {AnnOf(f) : f \in WFiles} \ {NoFile}

\* no image has gone through the pipeline yet
NoJob == [caller |-> "none", engine_failed |-> FALSE, at |-> -1, nextId |-> 0,
          model |-> TRUE, part |-> NoFile, status |-> 0, error |-> "",
          found |-> 0, annotated |-> FALSE]

\* no request has gone through the route table yet
NoAnswer == [route |-> "none", api_key |-> "none", status |-> 0, reached |-> FALSE]

\* no route that reads the store has answered yet
NoResponse == [route |-> "none", status |-> 0, limit |-> 0, offset |-> 0,
               asked |-> 0, fetched |-> 0, body |-> {}]

\* save_photo has not been called yet
NoSave == [n |-> 0, filename |-> "", raised |-> FALSE, enforced |-> FALSE, deleted |-> {}]

\* detect_motion has not been called yet
NoMotion == [at |-> -1, last |-> 0, read |-> FALSE, returned |-> FALSE]

\* ResultStorage.__init__, DirectoryMonitor.__init__ and APIServer.__init__,
\* the monitor's process_existing, the configured access key and the request
\* to come aside
InitState ==
    /\ clock = 0
    /\ index = {}
    /\ nextId = 1
    /\ docs = <<>>
    /\ files = {SrcPath("a.jpg")}
    /\ ret = NoCall
    /\ call = NoCall
    /\ inserted = {}
    /\ calls = 0
    /\ pc = [t \in Threads |-> "idle"]
    /\ loc = [t \in Threads |-> NoLocals]
    /\ overlap = FALSE
    /\ present = {}
    /\ observing = FALSE
    /\ events = <<>>
    /\ mstate = "created"
    /\ walk = {}
    /\ queue = <<>>
    /\ wpc = "none"
    /\ cur = NoFile
    /\ stop_event = FALSE
    /\ processed = [f \in WFiles \cup AnnFiles |-> 0]
    /\ hpath = NoFile
    /\ spc = "none"
    /\ stops = 0
    /\ log = <<>>
    /\ job = NoJob
    /\ areq = NoAnswer
    /\ now = 0
    /\ request_counts = [c \in {} |-> <<>>]
    /\ rpc = [h \in Handlers |-> "idle"]
    /\ rloc = [h \in Handlers |-> NoRequest]
    /\ accepted = [c \in Clients |-> <<>>]
    /\ rejected = [c \in Clients |-> 0]
    /\ denied = [client_ip |-> "", current_time |-> 0]
    /\ served = <<>>
    /\ status = 0
    /\ resp = NoResponse
    /\ fstime = 0
    /\ photos = {}
    /\ metadata = {}
    /\ psave = NoSave
    /\ ptime = 0
    /\ last_detection_time = 0
    /\ motion = NoMotion
    /\ positives = <<>>

Init ==
    InitState /\ process_existing = FALSE /\ filename = <<>> /\ access_key = "none"

Next == Save \/ Tick

Spec == Init /\ [][Next]_vars

(***************************************************************************)
(* Overlapping save_result calls.  The code takes no lock: each call opens *)
(* its own sqlite connection, every statement is atomic, SELECTs run in    *)
(* autocommit mode and the DELETEs of one sweep commit together.           *)
(***************************************************************************)
\* save_result up to the result document: lines 154-205
SvBegin(t) ==
    \E n \in Names, dets \in DetLists :
        LET rd == ResultData(n, dets, None, clock, clock)
            doCopy == SrcPath(n) \in files
        IN
        /\ pc[t] = "idle"
        /\ calls < MaxSaves
        /\ calls' = calls + 1
        /\ overlap' = (overlap \/ \E u \in Threads \ {t} : pc[u] # "idle")
        /\ files' = IF doCopy THEN files \cup {rd.image_path} ELSE files
        /\ docs' = [q \in DOMAIN docs \cup {rd.result_path} |->
                        IF q = rd.result_path THEN rd ELSE docs[q]]
        /\ loc' = [loc EXCEPT ![t] = [NoLocals EXCEPT !.rd = rd]]
        /\ pc' = [pc EXCEPT ![t] = "insert"]
        /\ UNCHANGED <<clock, index, nextId, ret, call, inserted, pipeVars, extVars>>

\* _save_to_database: INSERT and commit
SvInsert(t) ==
    LET row == Row(loc[t].rd, nextId) IN
    /\ pc[t] = "insert"
    /\ index' = index \cup {row}
    /\ nextId' = nextId + 1
    /\ inserted' = inserted \cup {[id |-> row.id, timestamp |-> row.timestamp]}
    /\ pc' = [pc EXCEPT ![t] = "count"]
    /\ UNCHANGED <<clock, docs, files, ret, call, calls, loc, overlap, pipeVars, extVars>>

\* _cleanup_old_results: SELECT COUNT(*) and the test count > max_results
ClCount(t) ==
    LET n == ToDelete(Cardinality(index)) IN
    /\ pc[t] = "count"
    /\ loc' = [loc EXCEPT ![t].to_delete = n]
    /\ pc' = [pc EXCEPT ![t] = IF n > 0 THEN "select" ELSE "return"]
    /\ UNCHANGED <<storeVars, overlap, pipeVars, extVars>>

\* _cleanup_old_results: SELECT ... ORDER BY timestamp ASC LIMIT to_delete
ClSelect(t) ==
    /\ pc[t] = "select"
    /\ \E old \in OldestSets(index, loc[t].to_delete) :
          loc' = [loc EXCEPT ![t].old_results = old]
    /\ pc' = [pc EXCEPT ![t] = "delete"]
    /\ UNCHANGED <<storeVars, overlap, pipeVars, extVars>>

\* _cleanup_old_results: the loop over old_results and the commit
ClDelete(t) ==
    LET gone == RemovedPaths(loc[t].old_results, {}) IN
    /\ pc[t] = "delete"
    /\ index' = DeleteRows(index, loc[t].old_results)
    /\ docs' = Restrict(docs, DOMAIN docs \ gone)
    /\ files' = files \ gone
    /\ pc' = [pc EXCEPT ![t] = "return"]
    /\ UNCHANGED <<clock, nextId, ret, call, inserted, calls, loc, overlap, pipeVars, extVars>>

\* save_result: return result_data
SvReturn(t) ==
    /\ pc[t] = "return"
    /\ ret' = loc[t].rd
    /\ loc' = [loc EXCEPT ![t] = NoLocals]
    /\ pc' = [pc EXCEPT ![t] = "idle"]
    /\ UNCHANGED <<clock, index, nextId, docs, files, call, inserted, calls, overlap, pipeVars, extVars>>

NextConc ==
    \/ \E t \in Threads :
          SvBegin(t) \/ SvInsert(t) \/ ClCount(t) \/ ClSelect(t) \/ ClDelete(t) \/ SvReturn(t)
    \/ Tick

SpecConc == Init /\ [][NextConc]_vars

(***************************************************************************)
(* The two callers of save_result: process_image, the watcher's callback,  *)
(* and the upload route.  Both run the detection engine, annotate the      *)
(* image when something was detected and save the outcome.                 *)
(***************************************************************************)
\* ModelHandler.detect: an exception of the engine is logged and [] returned
Detect(engine_failed, dets) == IF engine_failed THEN <<>> ELSE dets

\* _handle_upload: filepath, the uploaded file in the upload folder
UploadPath(n) == Path("uploads", n, -1)

\* annotate_image: output_dir, the directory annotated beside the image
OutputDir(root) == CASE root = "src" -> "src/annotated"
                     [] root = "uploads" -> "uploads/annotated"
                     [] OTHER -> "annotated"

\* ModelHandler.annotate_image: the path of the annotated image, the path
\* of the image itself when annotating failed
AnnotateImage(image_path, ok) ==
    IF ok THEN Path(OutputDir(image_path.root), image_path.name, -1) ELSE image_path

\* detect, annotate_image and save_result on the image at image_path, the
\* files of disk present
RunPipeline(caller, disk, image_path, engine_failed, dets, ok, fault, delFail) ==
    LET detections == Detect(engine_failed, dets)
        annotated_path == IF detections # <<>> THEN AnnotateImage(image_path, ok) ELSE None
        written == IF detections # <<>> /\ ok /\ image_path \in disk
                   THEN {annotated_path} ELSE {}
    IN
    /\ engine_failed => dets = <<>>
    /\ detections = <<>> => ~ok
    /\ ok => image_path \in disk
    /\ job' = [NoJob EXCEPT !.caller = caller, !.engine_failed = engine_failed,
                             !.at = clock, !.nextId = nextId,
                             !.part = IF caller = "upload" THEN image_path.name ELSE NoFile,
                             !.status = IF caller = "upload" THEN 200 ELSE 0,
                             !.found = Len(detections),
                             !.annotated = written # {}]
    /\ SaveResultOn(disk \cup written, image_path, detections, annotated_path,
                    TRUE, fault, delFail)

\* process_image(model, storage, image_path), the callback of the watcher
ProcessImage ==
    \E n \in Names, engine_failed \in BOOLEAN, dets \in DetLists, ok \in BOOLEAN,
       fault \in Faults, delFail \in {{}} \cup {{k} : k \in PathKinds} :
        RunPipeline("watcher", files, SrcPath(n), engine_failed, dets, ok, fault, delFail)

\* the file part of an upload request: absent, or its filename
UploadParts == {NoFile, "", "jpg", "notes.txt", "N2.TXT", "a.jpg"}

\* _allowed_file: '.' in filename
HasDot(fn) == fn \in {"notes.txt", "N2.TXT", "a.jpg"}

\* _allowed_file: filename.rsplit('.', 1)[1].lower()
RSplitLower(fn) == CASE fn = "a.jpg" -> "jpg"
                     [] fn \in {"notes.txt", "N2.TXT"} -> "txt"
                     [] OTHER -> ""

\* _allowed_file: ALLOWED_EXTENSIONS
AllowedExtensions == {"png", "jpg", "jpeg", "gif"}

\* mutant of AllowedFile: every file name passes
AllowedAny(fn) == TRUE

\* APIServer._allowed_file
AllowedFile(fn) == HasDot(fn) /\ RSplitLower(fn) \in AllowedExtensions

\* _handle_upload: the error of the first check that fails, "" when all pass
UploadError(model, part) ==
    IF ~model THEN "On-demand inference not available"
    ELSE IF part = NoFile THEN "No file provided"
    ELSE IF part = "" THEN "No file selected"
    ELSE IF ~AllowedFile(part) THEN "File type not allowed"
    ELSE ""

\* APIServer._handle_upload: the four checks, then file.save(filepath) and
\* the pipeline
HandleUpload ==
    \E model \in BOOLEAN, part \in UploadParts :
        LET err == UploadError(model, part) IN
        IF err # ""
        THEN /\ job' = [NoJob EXCEPT !.caller = "upload", !.model = model, !.part = part,
                                     !.status = 400, !.error = err]
             /\ UNCHANGED <<storeVars, concVars, extVars>>
        ELSE \E engine_failed \in BOOLEAN, dets \in DetLists, ok \in BOOLEAN,
                fault \in Faults, delFail \in {{}} \cup {{k} : k \in PathKinds} :
                RunPipeline("upload", files \cup {UploadPath(part)}, UploadPath(part),
                            engine_failed, dets, ok, fault, delFail)

NextPipe == ProcessImage \/ HandleUpload \/ Tick

SpecPipe == Init /\ [][NextPipe]_vars

(***************************************************************************)
(* DirectoryMonitor with use_queue=True: the observer thread dispatches    *)
(* file-created events to ImageFileEventHandler.on_created, start() walks  *)
(* the existing files on the caller's thread, one worker thread drains     *)
(* the queue.                                                              *)
(***************************************************************************)
\* the file's extension, lower-cased (the patterns are compiled with re.IGNORECASE)
Ext(f) == CASE f \in {"bird.jpg", "annotated/ann_bird.jpg"} -> "jpg"
            [] f \in {"B2.PNG", "annotated/ann_B2.PNG"} -> "png"
            [] OTHER -> "txt"

\* the default file_patterns: .*\.(jpg|jpeg|png)$
Matches(f) == Ext(f) \in {"jpg", "jpeg", "png"}

\* Queue(): maxsize, 0 meaning that the queue has no bound
QueueMaxsize == 0

\* Queue.full: put blocks while it holds
Full(q) == QueueMaxsize > 0 /\ Len(q) >= QueueMaxsize

\* worker_thread.join(timeout=2.0), in seconds
JoinTimeout == 2

\* mutant of WorkerJoined: join() without a timeout
WorkerJoinedNoTimeout(exited) == exited

\* worker_thread.join(timeout=2.0) returns: the worker has exited or the
\* timeout has run out
WorkerJoined(exited) == exited \/ JoinTimeout > 0

\* mutant of AfterItem: an exception of the callback ends the worker
AfterItemCrash(raised) == IF raised THEN "exited" ELSE "top"

\* _process_file and _worker_loop: where the worker goes after an item.
\* _process_file catches and logs what the callback raises and the loop's
\* own except clause catches the rest, so the loop test comes next either way
AfterItem(raised) == "top"

\* the state outside the directory monitor
notWatch == <<storeVars, concVars, pipeVars, rateVars, serveVars, authVars, restVars>>

\* the producer creates a file under the watched root
CreateFile ==
    \E f \in WFiles \ present :
        /\ present' = present \cup {f}
        /\ events' = IF observing THEN Append(events, f) ELSE events
        /\ UNCHANGED <<process_existing, observing, mstate, walk, queue, wpc, cur,
                       stop_event, processed, hpath, spc, stops, log, notWatch>>

\* ImageFileEventHandler.on_created, on the observer thread: the pattern
\* test; a matching path is held during time.sleep(0.5)
OnCreated ==
    /\ observing
    /\ events # <<>>
    /\ hpath = NoFile
    /\ events' = Tail(events)
    /\ hpath' = IF Matches(Head(events)) THEN Head(events) ELSE NoFile
    /\ UNCHANGED <<process_existing, present, observing, mstate, walk, queue, wpc, cur,
                   stop_event, processed, spc, stops, log, notWatch>>

\* on_created: self.queue.put(file_path), after the sleep
OnCreatedPut ==
    /\ hpath # NoFile
    /\ ~Full(queue)
    /\ queue' = Append(queue, hpath)
    /\ hpath' = NoFile
    /\ UNCHANGED <<process_existing, present, observing, events, mstate, walk, wpc, cur,
                   stop_event, processed, spc, stops, log, notWatch>>

\* DirectoryMonitor.start up to the test of process_existing
Start ==
    /\ mstate = "created"
    /\ stop_event' = FALSE
    /\ wpc' = "top"
    /\ observing' = TRUE
    /\ mstate' = IF process_existing THEN "listing" ELSE "running"
    /\ UNCHANGED <<process_existing, present, events, walk, queue, cur, processed,
                   hpath, spc, stops, log, notWatch>>

\* _process_existing_files: os.walk lists the directory
WalkList ==
    /\ mstate = "listing"
    /\ walk' = {f \in present : Matches(f)}
    /\ mstate' = "walking"
    /\ UNCHANGED <<process_existing, present, observing, events, queue, wpc, cur,
                   stop_event, processed, hpath, spc, stops, log, notWatch>>

\* _process_existing_files: queue.put of one listed file
WalkPut ==
    \E f \in walk :
        /\ mstate = "walking"
        /\ ~Full(queue)
        /\ queue' = Append(queue, f)
        /\ walk' = walk \ {f}
        /\ UNCHANGED <<process_existing, present, observing, events, mstate, wpc, cur,
                       stop_event, processed, hpath, spc, stops, log, notWatch>>

\* _process_existing_files and start() return
WalkDone ==
    /\ mstate = "walking"
    /\ walk = {}
    /\ mstate' = "running"
    /\ UNCHANGED <<process_existing, present, observing, events, walk, queue, wpc, cur,
                   stop_event, processed, hpath, spc, stops, log, notWatch>>

\* DirectoryMonitor.stop is called, a first or a further time:
\* self.observer.stop(); the events not dispatched yet are dropped
Stop ==
    /\ mstate \in {"running", "stopped"}
    /\ spc = "none"
    /\ stops < MaxStops
    /\ observing' = FALSE
    /\ events' = <<>>
    /\ spc' = "join_observer"
    /\ mstate' = "stopped"
    /\ UNCHANGED <<process_existing, present, walk, queue, wpc, cur, stop_event,
                   processed, hpath, stops, log, notWatch>>

\* stop: self.observer.join() returns when the event thread has left the
\* handler; then self.stop_event.set()
StopJoinObserver ==
    /\ spc = "join_observer"
    /\ hpath = NoFile
    /\ stop_event' = TRUE
    /\ spc' = "join_worker"
    /\ UNCHANGED <<process_existing, present, observing, events, mstate, walk, queue,
                   wpc, cur, processed, hpath, stops, log, notWatch>>

\* stop: self.worker_thread.join(timeout=2.0) and return
StopJoinWorker ==
    /\ spc = "join_worker"
    /\ WorkerJoined(wpc = "exited")
    /\ spc' = "none"
    /\ stops' = stops + 1
    /\ UNCHANGED <<process_existing, present, observing, events, mstate, walk, queue,
                   wpc, cur, stop_event, processed, hpath, log, notWatch>>

\* _worker_loop: while not self.stop_event.is_set()
WorkerCheck ==
    /\ wpc = "top"
    /\ wpc' = IF stop_event THEN "exited" ELSE "get"
    /\ UNCHANGED <<process_existing, present, observing, events, mstate, walk, queue,
                   cur, stop_event, processed, hpath, spc, stops, log, notWatch>>

\* _worker_loop: queue.get returns a path
WorkerGet ==
    /\ wpc = "get"
    /\ queue # <<>>
    /\ cur' = Head(queue)
    /\ queue' = Tail(queue)
    /\ wpc' = "process"
    /\ UNCHANGED <<process_existing, present, observing, events, mstate, walk,
                   stop_event, processed, hpath, spc, stops, log, notWatch>>

\* _worker_loop: queue.get times out after 1 second, the exception is logged
WorkerTimeout ==
    /\ wpc = "get"
    /\ queue = <<>>
    /\ wpc' = "top"
    /\ UNCHANGED <<process_existing, present, observing, events, mstate, walk, queue,
                   cur, stop_event, processed, hpath, spc, stops, log, notWatch>>

\* _worker_loop: _process_file calls the callback, which returns or raises,
\* then task_done
WorkerProcess ==
    \E raised \in BOOLEAN :
        /\ wpc = "process"
        /\ processed' = [processed EXCEPT ![cur] = @ + 1]
        /\ log' = Append(log, [path |-> cur, raised |-> raised])
        /\ cur' = NoFile
        /\ wpc' = AfterItem(raised)
        /\ UNCHANGED <<process_existing, present, observing, events, mstate, walk, queue,
                       stop_event, hpath, spc, stops, notWatch>>

\* _worker_loop with process_image as the callback: detect, annotate_image
\* when something was detected, save_result; process_image catches what
\* they raise.  annotate_image writes its output beside the image, under
\* the watched root, and the observer reports the new file
WorkerProcessImage ==
    \E annotated \in BOOLEAN :
        LET out == AnnOf(cur)
            created == annotated /\ out \notin present
        IN
        /\ wpc = "process"
        /\ annotated => cur \in present /\ out # NoFile
        /\ processed' = [processed EXCEPT ![cur] = @ + 1]
        /\ log' = Append(log, [path |-> cur, raised |-> FALSE])
        /\ present' = IF annotated THEN present \cup {out} ELSE present
        /\ events' = IF created /\ observing THEN Append(events, out) ELSE events
        /\ cur' = NoFile
        /\ wpc' = AfterItem(FALSE)
        /\ UNCHANGED <<process_existing, observing, mstate, walk, queue,
                       stop_event, hpath, spc, stops, notWatch>>

InitWatch ==
    InitState /\ process_existing \in BOOLEAN /\ filename = <<>> /\ access_key = "none"

NextWatch ==
    \/ CreateFile \/ OnCreated \/ OnCreatedPut
    \/ Start \/ WalkList \/ WalkPut \/ WalkDone
    \/ Stop \/ StopJoinObserver \/ StopJoinWorker
    \/ WorkerCheck \/ WorkerGet \/ WorkerTimeout \/ WorkerProcess

SpecWatch == InitWatch /\ [][NextWatch]_vars

\* the directory monitor with process_image as its callback
NextFeed ==
    \/ CreateFile \/ OnCreated \/ OnCreatedPut
    \/ Start \/ WalkList \/ WalkPut \/ WalkDone
    \/ Stop \/ StopJoinObserver \/ StopJoinWorker
    \/ WorkerCheck \/ WorkerGet \/ WorkerTimeout \/ WorkerProcessImage

SpecFeed == InitWatch /\ [][NextFeed]_vars

\* the event thread leaves the handler and the caller of stop() runs on
FairWatch ==
    /\ WF_vars(OnCreatedPut)
    /\ WF_vars(StopJoinObserver)
    /\ WF_vars(StopJoinWorker)

SpecWatchFair == InitWatch /\ [][NextWatch]_vars /\ FairWatch

(***************************************************************************)
(* Claims about the directory monitor.                                     *)
(***************************************************************************)
\* C3: no file under the watched root is passed to the processing callback
\* more than once, also when it is created during start()'s initial walk.
C3_AtMostOnce == \A f \in WFiles : processed[f] <= 1

\* C4: when the worker exits after stop(), it has drained the queue: no
\* queued path is left unprocessed.
C4_DrainedOnExit == wpc = "exited" => queue = <<>>

\* C28: no image that the processing callback wrote becomes a work item:
\* no annotated image is reported to the handler, queued or processed.
C28_NoFeedback ==
    \A f \in AnnFiles :
        /\ processed[f] = 0
        /\ cur # f /\ hpath # f
        /\ \A i \in 1..Len(queue) : queue[i] # f

\* C15: the number of paths waiting in the work queue never exceeds the
\* bound the queue is configured with; a put on a full queue waits.
C15_QueueBounded == Len(queue) <= QueueBound

\* C16: every call of stop() after start(), a second call included, returns:
\* a caller inside stop() eventually leaves it.
C16_StopReturns == (spc # "none") ~> (spc = "none")

\* a second stop() has returned while a callback still runs on the worker
C16_Witness == stops = 2 /\ wpc = "process"

\* C17: an exception of the callback does not end the worker loop: the
\* worker exits only after stop() has set stop_event.
C17_WorkerSurvives == wpc = "exited" => stop_event

\* a callback raised and an item queued behind it was passed to the callback
C17_Witness ==
    \E i, k \in DOMAIN log : i < k /\ log[i].raised /\ log[k].path # log[i].path

(***************************************************************************)
(* APIServer._rate_limit_check, called by the _auth_required wrapper on    *)
(* the thread that handles the request.  Flask's server handles requests   *)
(* on concurrent threads and the code takes no lock, so the statements of  *)
(* two checks interleave.                                                   *)
(***************************************************************************)
\* [t for t in ts if t > time_window]
RECURSIVE NewerThan(_, _)
NewerThan(ts, time_window) ==
    IF ts = <<>> THEN <<>>
    ELSE IF Head(ts) > time_window
         THEN <<Head(ts)>> \o NewerThan(Tail(ts), time_window)
         ELSE NewerThan(Tail(ts), time_window)

\* _rate_limit_check: client_ip, current_time and the initialisation of the
\* client's list
RlEnter(h) ==
    \E c \in Clients :
        /\ rpc[h] = "idle"
        /\ Len(accepted[c]) + rejected[c] < MaxRequests
        /\ rloc' = [rloc EXCEPT ![h] = [client_ip |-> c, current_time |-> now, kept |-> <<>>]]
        /\ request_counts' = IF c \in DOMAIN request_counts THEN request_counts
                              ELSE [d \in DOMAIN request_counts \cup {c} |->
                                      IF d = c THEN <<>> ELSE request_counts[d]]
        /\ rpc' = [rpc EXCEPT ![h] = "filter"]
        /\ UNCHANGED <<now, accepted, rejected, denied, storeVars, concVars, pipeVars, watchVars, serveVars, authVars, restVars>>

\* _rate_limit_check: the list comprehension reads the client's list
RlFilter(h) ==
    /\ rpc[h] = "filter"
    /\ rloc' = [rloc EXCEPT ![h].kept =
                   NewerThan(request_counts[rloc[h].client_ip],
                             rloc[h].current_time - Window)]
    /\ rpc' = [rpc EXCEPT ![h] = "store"]
    /\ UNCHANGED <<now, request_counts, accepted, rejected, denied, storeVars, concVars, pipeVars, watchVars, serveVars, authVars, restVars>>

\* _rate_limit_check: the filtered list is stored back
RlStore(h) ==
    /\ rpc[h] = "store"
    /\ request_counts' = [request_counts EXCEPT ![rloc[h].client_ip] = rloc[h].kept]
    /\ rpc' = [rpc EXCEPT ![h] = "check"]
    /\ UNCHANGED <<now, rloc, accepted, rejected, denied, storeVars, concVars, pipeVars, watchVars, serveVars, authVars, restVars>>

\* _rate_limit_check: len(...) >= rate_limit, return False (429) when it holds
RlCheck(h) ==
    LET c == rloc[h].client_ip IN
    /\ rpc[h] = "check"
    /\ IF Len(request_counts[c]) >= RateLimit
       THEN /\ rejected' = [rejected EXCEPT ![c] = @ + 1]
            /\ denied' = [client_ip |-> c, current_time |-> rloc[h].current_time]
            /\ rpc' = [rpc EXCEPT ![h] = "idle"]
            /\ rloc' = [rloc EXCEPT ![h] = NoRequest]
       ELSE /\ rpc' = [rpc EXCEPT ![h] = "append"]
            /\ UNCHANGED <<rejected, denied, rloc>>
    /\ UNCHANGED <<now, request_counts, accepted, storeVars, concVars, pipeVars, watchVars, serveVars, authVars, restVars>>

\* _rate_limit_check: append(current_time), return True
RlAppend(h) ==
    LET c == rloc[h].client_ip IN
    /\ rpc[h] = "append"
    /\ request_counts' = [request_counts EXCEPT ![c] = Append(@, rloc[h].current_time)]
    /\ accepted' = [accepted EXCEPT ![c] = Append(@, rloc[h].current_time)]
    /\ rpc' = [rpc EXCEPT ![h] = "idle"]
    /\ rloc' = [rloc EXCEPT ![h] = NoRequest]
    /\ UNCHANGED <<now, rejected, denied, storeVars, concVars, pipeVars, watchVars, serveVars, authVars, restVars>>

\* time passes
Advance ==
    /\ now + TimeStep <= MaxTime
    /\ now' = now + TimeStep
    /\ UNCHANGED <<request_counts, rpc, rloc, accepted, rejected, denied,
                   storeVars, concVars, pipeVars, watchVars, serveVars, authVars, restVars>>

NextRate ==
    \/ \E h \in Handlers :
          RlEnter(h) \/ RlFilter(h) \/ RlStore(h) \/ RlCheck(h) \/ RlAppend(h)
    \/ Advance

SpecRate == Init /\ [][NextRate]_vars

(***************************************************************************)
(* The route table and the _auth_required wrapper, one request at a time.  *)
(* The wrapper is taken as bound to the server instance, the way its body  *)
(* uses self.                                                              *)
(***************************************************************************)
\* _setup_routes: the endpoints registered with add_url_rule
Routes == {"results", "result", "search", "stats", "upload",
           "serve_image", "index", "gallery", "details"}

\* the handlers defined under @_auth_required
AuthRequired(route) == route \in {"results", "result", "search", "stats", "upload"}

\* the X-API-Key header or api_key parameter of a request, "none" when absent
ApiKeys == {"none", "k1", "k2"}

\* the statuses a handler answers with
HandlerStatus == {200, 404, 500}

\* _auth_required.decorated: the status answered before the handler runs,
\* 0 when the request is passed on to the handler
Decorated(allowed, key, api_key) ==
    IF ~allowed THEN 429
    ELSE IF key = "none" THEN 0
    ELSE IF api_key = "none" \/ api_key # key THEN 401
    ELSE 0

\* a request comes in and is answered
Request ==
    \E route \in Routes, c \in Clients, api_key \in ApiKeys, hs \in HandlerStatus :
        LET old == IF c \in DOMAIN request_counts THEN request_counts[c] ELSE <<>>
            kept == NewerThan(old, now - Window)
            allowed == Len(kept) < RateLimit
            early == IF AuthRequired(route) THEN Decorated(allowed, access_key, api_key)
                     ELSE 0
        IN
        /\ Len(accepted[c]) + rejected[c] < MaxRequests
        /\ areq' = [route |-> route, api_key |-> api_key,
                    status |-> IF early = 0 THEN hs ELSE early,
                    reached |-> early = 0]
        /\ IF AuthRequired(route)
           THEN /\ request_counts' =
                     [d \in DOMAIN request_counts \cup {c} |->
                         IF d = c THEN (IF allowed THEN Append(kept, now) ELSE kept)
                         ELSE request_counts[d]]
                /\ accepted' = IF allowed THEN [accepted EXCEPT ![c] = Append(@, now)]
                               ELSE accepted
                /\ rejected' = IF allowed THEN rejected
                               ELSE [rejected EXCEPT ![c] = @ + 1]
                /\ denied' = IF allowed THEN denied
                             ELSE [client_ip |-> c, current_time |-> now]
           ELSE UNCHANGED <<request_counts, accepted, rejected, denied>>
        /\ UNCHANGED <<now, rpc, rloc, access_key, storeVars, concVars, pipeVars,
                       watchVars, serveVars, restVars>>

InitAuth ==
    InitState /\ process_existing = FALSE /\ filename = <<>>
              /\ access_key \in {"none", "k1"}

NextAuth == Request \/ Advance

SpecAuth == InitAuth /\ [][NextAuth]_vars

(***************************************************************************)
(* APIServer._sanitize_path and _serve_image.  A path is a sequence of     *)
(* characters; the file a path names is found as the OS does, segment by   *)
(* segment (no symbolic links).                                            *)
(***************************************************************************)
Chars == {"/", ".", "a"}

\* the values of <path:filename>
Filenames == UNION {[1..k -> Chars] : k \in 1..MaxLen}

\* str.rfind("/") + 1
AfterLastSlash(p) ==
    LET S == {i \in 1..Len(p) : p[i] = "/"} IN
    IF S = {} THEN 0 ELSE CHOOSE i \in S : \A j \in S : j <= i

RECURSIVE LStrip(_, _)
\* str.lstrip(cs)
LStrip(p, cs) == IF p # <<>> /\ Head(p) \in cs THEN LStrip(Tail(p), cs) ELSE p

RECURSIVE RStrip(_, _)
\* str.rstrip(cs)
RStrip(p, cs) ==
    IF p # <<>> /\ p[Len(p)] \in cs THEN RStrip(SubSeq(p, 1, Len(p) - 1), cs) ELSE p

\* posixpath.basename
Basename(p) == SubSeq(p, AfterLastSlash(p) + 1, Len(p))

\* posixpath.dirname
Dirname(p) ==
    LET head == SubSeq(p, 1, AfterLastSlash(p)) IN
    IF head # <<>> /\ \E i \in 1..Len(head) : head[i] # "/"
    THEN RStrip(head, {"/"}) ELSE head

\* posixpath.join(a, b)
OsPathJoin(a, b) ==
    IF b # <<>> /\ Head(b) = "/" THEN b
    ELSE IF a = <<>> \/ a[Len(a)] = "/" THEN a \o b
    ELSE a \o <<"/">> \o b

\* werkzeug.utils.secure_filename: separators become "_", characters outside
\* [A-Za-z0-9_.-] are dropped, leading and trailing "." and "_" are stripped
SecureFilename(b) ==
    LET u == [i \in 1..Len(b) |-> IF b[i] = "/" THEN "_" ELSE b[i]] IN
    RStrip(LStrip(u, {".", "_"}), {".", "_"})

\* mutant of ReSubDots: the ".." are left in place
KeepDots(d) == d

RECURSIVE ReSubDots(_)
\* re.sub(r'\.\.', '_', directory)
ReSubDots(d) ==
    IF Len(d) >= 2 /\ d[1] = "." /\ d[2] = "."
    THEN <<"_">> \o ReSubDots(SubSeq(d, 3, Len(d)))
    ELSE IF d = <<>> THEN <<>>
    ELSE <<d[1]>> \o ReSubDots(Tail(d))

\* APIServer._sanitize_path
SanitizePath(fn) ==
    LET base == SecureFilename(Basename(fn))
        directory == Dirname(fn)
    IN IF directory # <<>>
       THEN OsPathJoin(LStrip(ReSubDots(directory), {"/"}), base)
       ELSE base

\* the segments of a path, between its slashes
RECURSIVE Split(_)
Split(p) ==
    LET S == {i \in 1..Len(p) : p[i] = "/"} IN
    IF S = {} THEN <<p>>
    ELSE LET i == CHOOSE k \in S : \A j \in S : k <= j
         IN <<SubSeq(p, 1, i - 1)>> \o Split(SubSeq(p, i + 1, Len(p)))

RECURSIVE Walk(_, _)
Walk(segs, at) ==
    IF segs = <<>> THEN at
    ELSE LET g == Head(segs) IN
         Walk(Tail(segs),
              IF g = <<>> \/ g = <<".">> THEN at
              ELSE IF g = <<".", ".">>
                   THEN (IF at = <<>> THEN at ELSE SubSeq(at, 1, Len(at) - 1))
              ELSE Append(at, g))

\* the file an absolute path names: the directories from / down to it
Resolve(p) == Walk(Split(p), <<>>)

\* ResultStorage.__init__: base_dir and the managed roots; upload_folder
BaseDir == <<"/", "b">>
ImagesDir == OsPathJoin(BaseDir, <<"i">>)
AnnotatedDir == OsPathJoin(BaseDir, <<"n">>)
UploadFolder == OsPathJoin(BaseDir, <<"u">>)

\* the directories os.listdir finds in the images and annotated roots
DateDirs == {<<"d">>}

\* _serve_image: search_paths, the dated folders in any order of os.listdir
SearchPaths(safe) ==
    {OsPathJoin(ImagesDir, safe), OsPathJoin(AnnotatedDir, safe),
     OsPathJoin(UploadFolder, safe)}
    \cup {OsPathJoin(OsPathJoin(ImagesDir, d), safe) : d \in DateDirs}
    \cup {OsPathJoin(OsPathJoin(AnnotatedDir, d), safe) : d \in DateDirs}

\* _serve_image: the first search path that is a readable file is sent;
\* which of them exist is up to the file system.  abort(404) raises inside
\* the try block, so a request that finds no file is answered with 500
ServeImage ==
    /\ status = 0
    /\ \/ \E path \in SearchPaths(SanitizePath(filename)) :
             /\ served' = Resolve(path)
             /\ status' = 200
       \/ /\ served' = <<>>
          /\ status' = 500
    /\ UNCHANGED <<filename, storeVars, concVars, pipeVars, watchVars, rateVars, authVars, restVars>>

\* a request for any path arrives
InitServe ==
    InitState /\ process_existing = FALSE /\ filename \in Filenames /\ access_key = "none"

NextServe == ServeImage

SpecServe == InitServe /\ [][NextServe]_vars

(***************************************************************************)
(* Claims about the API gateway.                                           *)
(***************************************************************************)
\* the number of requests of client c accepted in the window (T - 60, T]
AcceptedIn(c, T) ==
    Cardinality({i \in DOMAIN accepted[c] :
                    accepted[c][i] > T - Window /\ accepted[c][i] <= T})

\* C5: for every client address, at most rate_limit requests are accepted
\* within any 60-second window, also when its requests are handled
\* concurrently.
C5_QuotaPerWindow ==
    \A c \in Clients : \A i \in DOMAIN accepted[c] :
        AcceptedIn(c, accepted[c][i]) <= RateLimit

IsPrefix(a, b) == Len(a) <= Len(b) /\ SubSeq(b, 1, Len(a)) = a

\* the roots the gateway may serve from
ManagedRoots == {Resolve(ImagesDir), Resolve(AnnotatedDir), Resolve(UploadFolder)}

\* C6: whatever path is requested, the file the image-serving route opens
\* lies under the images root, the annotated root or the uploads root.
C6_ServedUnderRoots ==
    status = 200 => \E root \in ManagedRoots : IsPrefix(root, served)

\* a request whose path has a ".." segment was answered with a file
C6_Witness ==
    /\ status = 200
    /\ \E i \in 1..Len(Split(filename)) : Split(filename)[i] = <<".", ".">>
    /\ Split(filename)[1] = <<".", ".">>

\* the requests of client c accepted with a time inside the window that
\* ends at T
CountedAt(c, T) ==
    Cardinality({i \in DOMAIN accepted[c] : accepted[c][i] > T - Window})

\* C19: a request is answered 429 only while rate_limit accepted requests of
\* its client lie inside the 60-second window: requests older than the
\* window and rejected requests do not count against the client.
C19_AcceptedAfterWindow ==
    denied.client_ip # "" =>
        CountedAt(denied.client_ip, denied.current_time) >= RateLimit

\* C18: with an access key configured, a request without the key, or with
\* another key, is answered before it reaches a handler (401, or 429 when the
\* client is over its quota), whichever route it asks for.
C18_KeyRequiredEverywhere ==
    (access_key # "none" /\ areq.route # "none" /\ areq.api_key # access_key) =>
        areq.status \in {401, 429} /\ ~areq.reached

\* C20: a request to the image route that finds no file is answered 404.
C20_NotFoundIs404 == (status # 0 /\ served = <<>>) => status = 404

(***************************************************************************)
(* Claims about the result store.                                          *)
(***************************************************************************)
Min(a, b) == IF a < b THEN a ELSE b

Evicted == {e \in inserted : \A r \in index : r.id # e.id}

AllReturned == \A t \in Threads : pc[t] = "idle"

C7_ReturnsAssignedId == call.rowid # 0 => ResultId(ret) = {call.rowid}

\* C8: get_result_by_id(save_result(x)["id"]) returns x's detections and the
\* fields derived from them, while the saved row is still in the index.
C8_RoundTrip ==
    (call.rowid # 0 /\ \E r \in index : r.id = call.rowid) =>
        LET got == GetResultById(ResultId(ret)) IN
        /\ got # {}
        /\ \A g \in got :
              /\ "detections" \in DOMAIN g
              /\ g.detections = call.detections
              /\ (g.bird_detected = 1) = (Len(call.detections) > 0)
              /\ g.bird_count = Len(call.detections)
              /\ g.confidence = MaxConfidence(call.detections)

\* C9: a save_result whose document write or index insert failed returns the
\* error result, and a result without error marker has its row inserted.
C9_ErrorMarkerOnFailure ==
    calls > 0 =>
        /\ call.fault \in {"doc", "insert"} => "error" \in DOMAIN ret
        /\ "error" \notin DOMAIN ret => call.rowid # 0

\* C10: when copying the source image fails, the result is still recorded
\* (document written, row inserted) under the image path the caller supplied.
C10_CopyFailureNonFatal ==
    call.fault = "copy" =>
        /\ "error" \notin DOMAIN ret
        /\ call.rowid # 0
        /\ ret.result_path \in DOMAIN docs
        /\ ret.image_path = call.image_path

C14_SweepSurvivesDeleteFailure ==
    call.delFail # {} =>
        /\ Cardinality(index) <= MaxResults
        /\ \A o \in call.old :
              /\ \A r \in index : r.id # o.id
              /\ \A k \in PathKinds \ call.delFail :
                    o[k] \notin files /\ o[k] \notin DOMAIN docs

\* a sweep could not delete a file that is still on disk
C14_Witness ==
    /\ call.delFail # {}
    /\ \E o \in call.old, k \in call.delFail : o[k] \in files \cup DOMAIN docs

\* C11: when the detection engine failed on an image, nothing is saved for
\* it: no row is inserted and no result document is written.
C11_EngineFailureNotSaved ==
    job.engine_failed =>
        /\ nextId = job.nextId
        /\ \A q \in DOMAIN docs : docs[q].timestamp # job.at

\* the managed roots of the store
StoreRoots == {"images", "annotated", "results"}

\* C13: the image_path and annotated_path recorded for a saved result lie
\* under the store's managed roots, whichever caller saved it.
C13_PathsUnderStoreRoots ==
    /\ \A r \in index :
          r.image_path.root \in StoreRoots /\ r.annotated_path.root \in StoreRoots
    /\ (job.caller # "none" /\ "error" \notin DOMAIN ret) =>
          ret.image_path.root \in StoreRoots /\ ret.annotated_path.root \in StoreRoots

(***************************************************************************)
(* The routes that read the store: GET /api/results and                    *)
(* GET /api/results/<result_id>.                                           *)
(***************************************************************************)
\* _handle_results: the largest limit a caller may ask for
LimitMax == 100

\* _handle_results: the limit used in place of one out of range
LimitDefault == 20

\* the limit and offset parameters callers send
Limits == {-1, 0, 1, LimitMax, LimitMax + 1}
Offsets == {-1, 0, 1}

\* _handle_results: limit <= 0 or limit > 100 gives 20
ClampLimit(limit) == IF limit <= 0 \/ limit > LimitMax THEN LimitDefault ELSE limit

\* _handle_results: offset < 0 gives 0
ClampOffset(offset) == IF offset < 0 THEN 0 ELSE offset

\* ORDER BY timestamp DESC: the rows of S, newest first
RECURSIVE NewestFirst(_)
NewestFirst(S) ==
    IF S = {} THEN <<>>
    ELSE LET r == CHOOSE x \in S : \A y \in S : y.timestamp <= x.timestamp
         IN <<r>> \o NewestFirst(S \ {r})

\* SQL LIMIT n on a row list (a negative n is no limit)
SqlLimit(rows, n) == IF n < 0 \/ n >= Len(rows) THEN rows ELSE SubSeq(rows, 1, n)

\* ResultStorage.get_recent_results(limit, bird_only)
GetRecentResults(limit, bird_only) ==
    SqlLimit(NewestFirst({r \in index : bird_only => r.bird_detected = 1}), limit)

\* Python's results[offset:offset + limit], offset and limit not negative
Slice(rows, offset, limit) ==
    SubSeq(rows, offset + 1, IF offset + limit < Len(rows) THEN offset + limit ELSE Len(rows))

\* f"/images/{os.path.basename(path)}"
Url(path) == Path("/images", path.name, path.rid)

\* _handle_results: the fields returned for one row of the list
Simplified(r) ==
    [id             |-> r.id,
     timestamp      |-> r.timestamp,
     bird_detected  |-> r.bird_detected,
     bird_count     |-> r.bird_count,
     confidence     |-> r.confidence,
     image_path     |-> Url(r.image_path),
     annotated_path |-> IF r.annotated_path # None THEN Url(r.annotated_path) ELSE None]

\* dict item assignment: d[k] = v
SetItem(d, k, v) == [x \in DOMAIN d \cup {k} |-> IF x = k THEN v ELSE d[x]]

\* _handle_result: the dictionary of the store with image_url and
\* annotated_url added
WithUrls(result) ==
    LET r1 == IF result.image_path # None
              THEN SetItem(result, "image_url", Url(result.image_path)) ELSE result
    IN IF result.annotated_path # None
       THEN SetItem(r1, "annotated_url", Url(result.annotated_path)) ELSE r1

\* APIServer._handle_results
HandleResults ==
    \E lim \in Limits, off \in Offsets, bird_only \in BOOLEAN :
        LET limit == ClampLimit(lim)
            offset == ClampOffset(off)
            results == GetRecentResults(limit + offset, bird_only)
            page == Slice(results, offset, limit)
        IN
        /\ resp' = [route |-> "results", status |-> 200, limit |-> limit,
                    offset |-> offset, asked |-> limit + offset,
                    fetched |-> Len(results),
                    body |-> {Simplified(page[i]) : i \in 1..Len(page)}]
        /\ UNCHANGED <<storeVars, concVars, pipeVars, watchVars, rateVars, serveVars,
                       authVars, photoVars, pirVars>>

\* the result ids callers ask for
ResultIds == 1..(MaxSaves + 1)

\* APIServer._handle_result
HandleResult ==
    \E result_id \in ResultIds :
        LET found == GetResultById({result_id}) IN
        /\ resp' = [NoResponse EXCEPT !.route = "result",
                                      !.status = IF found = {} THEN 404 ELSE 200,
                                      !.body = {WithUrls(result) : result \in found}]
        /\ UNCHANGED <<storeVars, concVars, pipeVars, watchVars, rateVars, serveVars,
                       authVars, photoVars, pirVars>>

NextApi == Save \/ Tick \/ HandleResults \/ HandleResult

SpecApi == Init /\ [][NextApi]_vars

\* C21: no answer of the listing and detail routes carries a path of the
\* server's file system: image_path, annotated_path and result_path are
\* gateway-relative /images/ URLs, null or absent.
C21_NoAbsolutePaths ==
    resp.status = 200 =>
        \A b \in resp.body : \A k \in PathKinds \cap DOMAIN b :
            b[k] = None \/ b[k].root = "/images"

\* C23: a listing request never asks the store for more than the maximum
\* number of rows, and neither the store nor the route returns more.
C23_LimitClamped ==
    resp.route = "results" =>
        /\ resp.asked <= LimitMax
        /\ resp.fetched <= LimitMax
        /\ Cardinality(resp.body) <= LimitMax

(***************************************************************************)
(* The camera unit (pi_bird_cam): PhotoStorage keeps the photos the main   *)
(* loop takes, PIRSensor tells it when to take one.  The photos lie in     *)
(* the directory of the day; a photo is a record [name, ctime].            *)
(***************************************************************************)
\* generate_filename: the file names of the photos
PhotoNames == {"p1.jpg", "p2.jpg", "p3.jpg"}

\* photo_data given as bytes
Bytes == "bytes"

\* open(full_path, 'wb') / shutil.copy2 / capture_file: the file f is
\* created or replaced at time t
WritePhoto(fs, f, t) == {q \in fs : q.name # f} \cup {[name |-> f, ctime |-> t]}

\* PhotoStorage.list_photos
ListPhotos(fs) == {q.name : q \in fs}

\* _enforce_max_photos: num_to_delete, nothing when len(photo_files) <= max_photos
NumToDelete(fs) == IF Cardinality(fs) > MaxPhotos THEN Cardinality(fs) - MaxPhotos ELSE 0

\* _enforce_max_photos: the first n photos of the list sorted by
\* os.path.getctime, oldest first
OldestPhotos(fs, n) ==
    {S \in SUBSET fs :
        /\ Cardinality(S) = n
        /\ \A d \in S, k \in fs \ S : d.ctime <= k.ctime}

\* shutil.copy2(src, dst) raises SameFileError when both name one file
SameFile(photo_data, fname) == photo_data = fname

\* the main loop: camera.take_photo(storage.get_photo_path(filename))
TakePhoto ==
    \E fname \in PhotoNames :
        /\ fstime < MaxWrites
        /\ photos' = WritePhoto(photos, fname, fstime)
        /\ fstime' = fstime + 1
        /\ UNCHANGED <<metadata, psave, storeVars, concVars, pipeVars, watchVars,
                       rateVars, serveVars, authVars, apiVars, pirVars>>

\* PhotoStorage.save_photo(photo_data, filename), photo_data being bytes or
\* the path of an existing photo (given by its name), with
\* _enforce_max_photos and delete_photo
SavePhoto ==
    \E fname \in PhotoNames, photo_data \in {Bytes} \cup ListPhotos(photos) :
        /\ psave.n < MaxPhotoSaves
        /\ IF photo_data # Bytes /\ SameFile(photo_data, fname)
           THEN \* shutil.copy2 raises: the call ends before the metadata
                \* is stored and before _enforce_max_photos
                /\ psave' = [n |-> psave.n + 1, filename |-> fname, raised |-> TRUE,
                             enforced |-> FALSE, deleted |-> {}]
                /\ UNCHANGED <<fstime, photos, metadata>>
           ELSE /\ fstime < MaxWrites
                /\ LET fs1 == WritePhoto(photos, fname, fstime) IN
                   \E old \in OldestPhotos(fs1, NumToDelete(fs1)) :
                      /\ photos' = fs1 \ old
                      /\ metadata' = (metadata \cup {fname}) \ ListPhotos(old)
                      /\ psave' = [n |-> psave.n + 1, filename |-> fname,
                                   raised |-> FALSE, enforced |-> TRUE, deleted |-> old]
                /\ fstime' = fstime + 1
        /\ UNCHANGED <<storeVars, concVars, pipeVars, watchVars, rateVars, serveVars,
                       authVars, apiVars, pirVars>>

NextPhoto == TakePhoto \/ SavePhoto

SpecPhoto == Init /\ [][NextPhoto]_vars

\* mutant of InCooldown: the sensor is read on every call
InCooldownNever(current_time, last) == FALSE

\* detect_motion: current_time - self.last_detection_time < self.cooldown_time
InCooldown(current_time, last) == current_time - last < CooldownTime

\* PIRSensor.detect_motion, GPIO.input(self.pin) returning pin
DetectMotion ==
    \E pin \in BOOLEAN :
        /\ IF InCooldown(ptime, last_detection_time)
           THEN /\ ~pin
                /\ motion' = [at |-> ptime, last |-> last_detection_time,
                              read |-> FALSE, returned |-> FALSE]
                /\ UNCHANGED <<last_detection_time, positives>>
           ELSE /\ motion' = [at |-> ptime, last |-> last_detection_time,
                              read |-> TRUE, returned |-> pin]
                /\ last_detection_time' = IF pin THEN ptime ELSE last_detection_time
                /\ positives' = IF pin THEN Append(positives, ptime) ELSE positives
        /\ UNCHANGED <<ptime, storeVars, concVars, pipeVars, watchVars, rateVars,
                       serveVars, authVars, apiVars, photoVars>>

\* time.time() between two calls: the wall clock moves on, or is set back
ClockStep ==
    \E t \in 0..MaxPirTime :
        /\ t # ptime
        /\ ptime' = t
        /\ UNCHANGED <<last_detection_time, motion, positives, storeVars, concVars,
                       pipeVars, watchVars, rateVars, serveVars, authVars, apiVars,
                       photoVars>>

NextPir == DetectMotion \/ ClockStep

SpecPir == Init /\ [][NextPir]_vars

\* C25: every save_photo ends with _enforce_max_photos, after which at most
\* max_photos photos are stored, the deleted ones being the oldest by
\* creation time.
C25_AtMostMaxPhotos ==
    [][psave'.n = psave.n + 1 =>
          /\ psave'.enforced
          /\ Cardinality(photos') <= MaxPhotos
          /\ \A d \in psave'.deleted, k \in photos' : d.ctime <= k.ctime]_vars

\* C26: a detect_motion call made less than cooldown_time after the last
\* positive detection returns False without reading the pin, and no two
\* positive detections are closer together than cooldown_time.
C26_CooldownRespected ==
    /\ (motion.at >= 0 /\ motion.at - motion.last < CooldownTime) =>
            ~motion.read /\ ~motion.returned
    /\ \A i, j \in 1..Len(positives) :
            i < j => positives[j] - positives[i] >= CooldownTime

\* after two positive detections a call inside the cooldown was answered
\* without reading the pin
C26_Witness ==
    /\ Len(positives) >= 2
    /\ motion.at >= 0 /\ motion.last > 0
    /\ motion.at - motion.last < CooldownTime
    /\ ~motion.read

\* the parts an upload must be refused for: no file part, an empty file
\* name, a file name whose extension is not an image's
BadParts == {NoFile, "", "jpg", "notes.txt", "N2.TXT"}

C24_NoAnnotationNullPath ==
    (job.caller # "none" /\ job.status # 400 /\ "error" \notin DOMAIN ret
        /\ ~job.annotated) =>
        /\ ret.annotated_path = None
        /\ \A r \in index : r.id = call.rowid => r.annotated_path = None
        /\ ret.result_path \in DOMAIN docs =>
              docs[ret.result_path].annotated_path = None

\* C27: no two rows of the index share a stored-image, annotated or
\* document path, also when their saves read the same clock value for the
\* same source file name.
C27_DistinctResultPaths ==
    \A r1, r2 \in index :
        r1.id # r2.id =>
            /\ r1.image_path # r2.image_path
            /\ r1.annotated_path # r2.annotated_path
            /\ r1.result_path # r2.result_path

\* C29: every file an eviction sweep removes lies under a managed root of
\* the store and is referenced by no row that remains in the index.
C29_SweepRemovesOnlyOwnFiles ==
    [][\A p \in files \ files' :
          /\ p.root \in StoreRoots
          /\ \A r \in index' : \A k \in PathKinds : r[k] # p]_vars

\* C30: once all overlapping save_result calls have returned, the index
\* holds exactly min(rows inserted, max_results) rows and no evicted row is
\* more recent than a row that remains.
C30_NoOverEviction ==
    AllReturned =>
        /\ Cardinality(index) = Min(Cardinality(inserted), MaxResults)
        /\ \A r \in index, e \in Evicted : e.timestamp <= r.timestamp

====
